---- MODULE Spec2Model ----
(***************************************************************************)
(* Note editor of the epic-stack file-upload example.                      *)
(*                                                                         *)
(*   app/routes/resources+/note-editor.tsx            action (save a note) *)
(*   app/routes/users+/$username_+/notes.$noteId_.edit.tsx   loader        *)
(*   prisma/migrations/20230711042606_note_images/migration.sql   Image    *)
(*                                                                         *)
(* The database is three tables (Note, File, Image).  Every awaited prisma *)
(* call of the action is one atomic step, and the steps of concurrent      *)
(* requests interleave freely: no transaction wraps them.                  *)
(***************************************************************************)
EXTENDS Integers, Sequences, FiniteSets, TLC

\* ------------------------------------------------------------------ bounds
MaxNotes == 2      \* Note rows the table may hold
MaxFiles == 2      \* File rows the table may hold
MaxImages == 2     \* image fieldsets in one submitted form
MaxRequests == 2   \* requests in flight at the same time
MaxSubmits == 2    \* forms submitted in one behaviour

\* -------------------------------------------------------- program constants
TitleMax == 100        \* z.string().min(1).max(100)
ContentMax == 10000    \* z.string().min(1).max(10_000)

\* ------------------------------------------------------------------ values
\* A string is modelled by the character it repeats and its length.
Str(c, n) == [c |-> c, n |-> n]
StrLen(s) == s.n

Null == "null"              \* a null string column (altText ?? null)
Undefined == "undefined"    \* an optional string field that was not submitted
NoId == 0                   \* id omitted or empty: the values `if (id)` skips
NullRef == 0                \* a null reference: noteId NULL, a local not yet set

UserIds == {"u1", "u2"}
Username(userId) == IF userId = "u1" THEN "kody" ELSE "hannah"

Requests == 1..MaxRequests

\* The inputs a form may carry.
Intents == {"submit", "validate/title"}
PayloadIds == {NoId} \cup (1..(MaxNotes + 1))
Titles == {Str("a", 0), Str("a", 1), Str("b", TitleMax), Str("b", TitleMax + 1)}
Contents ==
  {Str("c", 0), Str("c", 1), Str("d", ContentMax), Str("d", ContentMax + 1)}
\* Every title with every content, and two valid texts that share neither.
AllTexts == Titles \X Contents
ValidTexts == {<<Str("a", 1), Str("c", 1)>>, <<Str("b", TitleMax), Str("d", ContentMax)>>}
\* The i-th uploaded fieldset: the odd ones carry an alt text, the even ones none.
Upload(i) ==
  [image |-> [filepath |-> i, type |-> "image/png"],
   altText |-> IF i % 2 = 1 THEN "fridge" ELSE Undefined]
Uploads(k) == [i \in 1..k |-> Upload(i)]

VARIABLES
  notes,        \* table Note: rows [id, ownerId, title, content]
  files,        \* table File: rows [id, blob]
  images,       \* table Image: rows [fileId, contentType, altText, noteId]
  req,          \* per request: the action's position and local variables, and
                \* the ids and rows its inserts returned (createdFiles, createdImages)
  submits,      \* how many forms have been submitted so far
  saved,        \* the last response of the action, and the user it went to
  loaded,       \* the last response of the edit page's loader
  deleted       \* the last response of the delete-image resource

vars == <<notes, files, images, req, submits, saved, loaded, deleted>>
db == <<notes, files, images>>

\* ------------------------------------------------------------------ schema
\* The foreign key declared the other way round: File referencing Image.
ForeignKeysReversed ==
  {[name |-> "File_id_fkey", table |-> "File", column |-> "id",
    references |-> "Image", onDelete |-> "CASCADE"],
   [name |-> "Image_noteId_fkey", table |-> "Image", column |-> "noteId",
    references |-> "Note", onDelete |-> "SET NULL"]}

\* The foreign keys of the redefined Image table.
ForeignKeys ==
  {[name |-> "Image_fileId_fkey", table |-> "Image", column |-> "fileId",
    references |-> "File", onDelete |-> "CASCADE"],
   [name |-> "Image_noteId_fkey", table |-> "Image", column |-> "noteId",
    references |-> "Note", onDelete |-> "SET NULL"]}

\* The primary key column of a table (Image has none but its unique fileId).
KeyColumn(table) == IF table = "Image" THEN "fileId" ELSE "id"

\* The referential actions that deleting the rows `keys` of `table` triggers on
\* the rows `rows` of table `child`: CASCADE deletes the referencing rows,
\* SET NULL clears the referencing column.
OnDelete(child, rows, table, keys) ==
  LET fks == {fk \in ForeignKeys : fk.table = child /\ fk.references = table}
      cascaded(row) ==
        \E fk \in fks : fk.onDelete = "CASCADE" /\ row[fk.column] \in keys
      nulled(row) ==
        {fk.column : fk \in {k \in fks : k.onDelete = "SET NULL"
                                          /\ row[k.column] \in keys}}
      clear(row) ==
        [c \in DOMAIN row |-> IF c \in nulled(row) THEN NullRef ELSE row[c]]
  IN {clear(row) : row \in {x \in rows : ~cascaded(x)}}

\* DELETE FROM table WHERE key IN keys, on one of the three tables.
DeleteFrom(child, rows, table, keys) ==
  OnDelete(child,
           IF child = table
             THEN {row \in rows : row[KeyColumn(table)] \notin keys}
             ELSE rows,
           table, keys)

\* ------------------------------------------------------------ prisma calls
\* cuid(): an id no row of the table has had.  No row of Note or File is ever
\* deleted, so the row count numbers them.
NewId(rows) == Cardinality(rows) + 1

\* The lookup without the owner: where: { id }
NoteWhereIdOnly(id, userId) == {n \in notes : n.id = id}

\* where: { id, ownerId: userId }
NoteWhere(id, userId) == {n \in notes : n.id = id /\ n.ownerId = userId}

\* An update that writes the title and leaves the content.
NoteUpdateTitleOnly(id, data) ==
  {IF n.id = id
     THEN [id |-> n.id, ownerId |-> data.ownerId, title |-> data.title,
           content |-> n.content]
     ELSE n : n \in notes}

\* prisma.note.update({ where: { id }, data }): the table after the update.
NoteUpdate(id, data) ==
  {IF n.id = id
     THEN [id |-> n.id, ownerId |-> data.ownerId, title |-> data.title,
           content |-> data.content]
     ELSE n : n \in notes}

\* A create whose id is not generated: every new row gets the id 1.
NoteCreateFixedId(data) ==
  [id |-> 1, ownerId |-> data.ownerId, title |-> data.title,
   content |-> data.content]

\* prisma.note.create({ data }): the row created.
NoteCreate(data) ==
  [id |-> NewId(notes), ownerId |-> data.ownerId, title |-> data.title,
   content |-> data.content]

\* fs.promises.readFile(image.filepath)
ReadFile(filepath) == <<"bytes of", filepath>>

\* prisma.file.create({ data: { blob } }): the row created.
FileCreate(image) == [id |-> NewId(files), blob |-> ReadFile(image.filepath)]

\* An image that is not linked to the note.
ImageCreateUnlinked(image, altText, noteId, fileId) ==
  [fileId |-> fileId, contentType |-> image.type,
   altText |-> IF altText = Undefined THEN Null ELSE altText,
   noteId |-> NullRef]

\* An image that takes the note's id for the file's.
ImageCreateWrongFile(image, altText, noteId, fileId) ==
  [fileId |-> noteId, contentType |-> image.type,
   altText |-> IF altText = Undefined THEN Null ELSE altText,
   noteId |-> noteId]

\* prisma.image.create({ data }): the row created.
ImageCreate(image, altText, noteId, fileId) ==
  [fileId |-> fileId, contentType |-> image.type,
   altText |-> IF altText = Undefined THEN Null ELSE altText,
   noteId |-> noteId]

\* -------------------------------------------------------------- validation
\* The schema without acceptMultipleErrors: the first field in error only.
SchemaErrorsFirstOnly(title, content) ==
  IF StrLen(title) < 1 \/ StrLen(title) > TitleMax THEN {"title"}
  ELSE IF StrLen(content) < 1 \/ StrLen(content) > ContentMax THEN {"content"}
  ELSE {}

\* BaseNoteEditorSchema with acceptMultipleErrors: the fields in error.
SchemaErrors(title, content) ==
  {f \in {"title"} : StrLen(title) < 1 \/ StrLen(title) > TitleMax}
    \cup {f \in {"content"} : StrLen(content) < 1 \/ StrLen(content) > ContentMax}

\* --------------------------------------------------------------- responses
NoLocation == [username |-> "", noteId |-> NullRef]
NoSubmission ==
  [intent |-> "", id |-> NoId, title |-> Str("", 0), content |-> Str("", 0),
   error |-> {}]
\* parse(formData, { schema, acceptMultipleErrors }): the intent, the fields as
\* submitted, and the errors of the schema.
Parse(intent, id, title, content) ==
  [intent |-> intent, id |-> id, title |-> title, content |-> content,
   error |-> SchemaErrors(title, content)]
NoResponse ==
  [status |-> 0, body |-> "", submission |-> NoSubmission, location |-> NoLocation,
   toast |-> ""]
\* json({ status, submission }, { status })
Json(status, body, submission) ==
  [status |-> status, body |-> body, submission |-> submission,
   location |-> NoLocation, toast |-> ""]
RedirectWithToast(username, noteId, toast) ==
  [status |-> 302, body |-> "", submission |-> NoSubmission,
   location |-> [username |-> username, noteId |-> noteId], toast |-> toast]
\* An exception no handler catches: the framework answers 500.
Unhandled == Json(500, "Unexpected Server Error", NoSubmission)

\* select: { id: true, owner: { select: { username: true } } }
Select(row) == [id |-> row.id, username |-> Username(row.ownerId)]
NoNote == [id |-> NullRef, username |-> ""]

IdleRequest ==
  [pc |-> "idle", userId |-> "", id |-> NoId, title |-> Str("", 0),
   content |-> Str("", 0), images |-> <<>>, note |-> NoNote, i |-> 0,
   file |-> NullRef, createdFiles |-> <<>>, createdImages |-> <<>>]

\* The action returns: the response goes to the user and the locals are gone.
Answer(r, response) ==
  /\ saved' = [userId |-> req[r].userId, response |-> response]
  /\ req' = [req EXCEPT ![r] = IdleRequest]

NoAnswer == [userId |-> "", response |-> NoResponse]
NoLoad ==
  [userId |-> "", noteId |-> NullRef,
   response |-> [status |-> 0, body |-> "", note |-> {}]]
NoDelete == [status |-> 0, imageId |-> NullRef]

\* The database a behaviour starts from: empty, or holding the note that a first
\* form of u1 without id, with the first valid text and no image, creates.
SeedNotes ==
  {{}, {[id |-> 1, ownerId |-> "u1", title |-> Str("a", 1), content |-> Str("c", 1)]}}

Init ==
  /\ notes \in SeedNotes
  /\ files = {}
  /\ images = {}
  /\ req = [r \in Requests |-> IdleRequest]
  /\ submits = 0
  /\ saved = NoAnswer
  /\ loaded = NoLoad
  /\ deleted = NoDelete

\* ------------------------------------------------------------------ action
\* The action up to its first database call: the session's user, the parsed
\* form, the two early returns, and the locals of lines 93-99.
Submit(r, userId, intent, id, title, content, k) ==
  /\ req[r].pc = "idle"
  /\ submits < MaxSubmits
  /\ submits' = submits + 1
  /\ LET submission == Parse(intent, id, title, content)
     IN IF submission.intent # "submit"
          THEN /\ saved' = [userId |-> userId,
                            response |-> Json(200, "idle", submission)]
               /\ UNCHANGED req
        ELSE IF submission.error # {}
          THEN /\ saved' = [userId |-> userId,
                            response |-> Json(400, "error", submission)]
               /\ UNCHANGED req
        ELSE /\ req' = [req EXCEPT ![r] =
                  [IdleRequest EXCEPT !.userId = userId, !.id = id,
                     !.title = title, !.content = content, !.images = Uploads(k),
                     !.pc = IF id # NoId THEN "findFirst" ELSE "create"]]
             /\ UNCHANGED saved
  /\ UNCHANGED <<db, loaded, deleted>>

\* The lookup without the early return: the update follows whatever it found.
FindFirstNoReturn(r) ==
  /\ req[r].pc = "findFirst"
  /\ req' = [req EXCEPT ![r] = [@ EXCEPT !.pc = "update"]]
  /\ UNCHANGED <<db, submits, saved, loaded, deleted>>

\* prisma.note.findFirst and the not-found return.
FindFirst(r) ==
  /\ req[r].pc = "findFirst"
  /\ IF NoteWhere(req[r].id, req[r].userId) = {}
       THEN Answer(r, Json(404, "error",
              Parse("submit", req[r].id, req[r].title, req[r].content)))
       ELSE /\ req' = [req EXCEPT ![r] = [@ EXCEPT !.pc = "update"]]
            /\ UNCHANGED saved
  /\ UNCHANGED <<db, submits, loaded, deleted>>

\* The data object of lines 95-99.
NoteData(q) == [ownerId |-> q.userId, title |-> q.title, content |-> q.content]

\* prisma.note.update
Update(r) ==
  /\ req[r].pc = "update"
  /\ notes' = NoteUpdate(req[r].id, NoteData(req[r]))
  /\ \E row \in {n \in notes' : n.id = req[r].id} :
       req' = [req EXCEPT ![r] = [@ EXCEPT !.pc = "images", !.i = 1,
                                            !.note = Select(row)]]
  /\ UNCHANGED <<files, images, submits, saved, loaded, deleted>>

\* prisma.note.create
Create(r) ==
  /\ req[r].pc = "create"
  /\ Cardinality(notes) < MaxNotes
  /\ LET row == NoteCreate(NoteData(req[r]))
     IN /\ notes' = notes \cup {row}
        /\ req' = [req EXCEPT ![r] = [@ EXCEPT !.pc = "images", !.i = 1,
                                                !.note = Select(row)]]
  /\ UNCHANGED <<files, images, submits, saved, loaded, deleted>>

\* One turn of the loop, first half: prisma.file.create.
CreateFile(r) ==
  /\ req[r].pc = "images"
  /\ req[r].i <= Len(req[r].images)
  /\ Cardinality(files) < MaxFiles
  /\ LET row == FileCreate(req[r].images[req[r].i].image)
     IN /\ files' = files \cup {row}
        /\ req' = [req EXCEPT ![r] = [@ EXCEPT !.pc = "image", !.file = row.id,
                     !.createdFiles = Append(@, row.id)]]
  /\ UNCHANGED <<notes, images, submits, saved, loaded, deleted>>

\* One turn of the loop, second half: prisma.image.create.
CreateImage(r) ==
  /\ req[r].pc = "image"
  /\ LET q == req[r]
         row == ImageCreate(q.images[q.i].image, q.images[q.i].altText,
                            q.note.id, q.file)
     IN /\ images' = images \cup {row}
        /\ req' = [req EXCEPT ![r] = [@ EXCEPT !.pc = "images", !.i = @ + 1,
                     !.createdImages = Append(@, row)]]
  /\ UNCHANGED <<notes, files, submits, saved, loaded, deleted>>

\* A failure that undoes the request's writes, as one transaction would.
InsertFailsRollback(r) ==
  /\ \/ req[r].pc = "images" /\ req[r].i <= Len(req[r].images)
     \/ req[r].pc = "image"
  /\ LET q == req[r]
     IN /\ notes' = IF q.id = NoId THEN {n \in notes : n.id # q.note.id} ELSE notes
        /\ files' = {f \in files :
                       \A j \in 1..Len(q.createdFiles) : q.createdFiles[j] # f.id}
        /\ images' = {i \in images :
                        \A j \in 1..Len(q.createdImages) : q.createdImages[j] # i}
  /\ Answer(r, Unhandled)
  /\ UNCHANGED <<submits, loaded, deleted>>

\* The awaited insert rejects (the upload cannot be read, the database refuses
\* the write).  Nothing catches it and nothing is undone.
InsertFails(r) ==
  /\ \/ req[r].pc = "images" /\ req[r].i <= Len(req[r].images)
     \/ req[r].pc = "image"
  /\ Answer(r, Unhandled)
  /\ UNCHANGED <<db, submits, loaded, deleted>>

\* The loop is over: redirectWithToast.
Redirect(r) ==
  /\ req[r].pc = "images"
  /\ req[r].i > Len(req[r].images)
  /\ Answer(r, RedirectWithToast(req[r].note.username, req[r].note.id,
                 IF req[r].id # NoId THEN "Note updated" ELSE "Note created"))
  /\ UNCHANGED <<db, submits, loaded, deleted>>

\* ------------------------------------------------------------ delete-image
\* POST /resources/delete-image with imageId = image.fileId: removes that Image
\* row; the schema's referential actions decide what else goes.
DeleteImage(imageId) ==
  /\ IF \E i \in images : i.fileId = imageId
       THEN /\ images' = DeleteFrom("Image", images, "Image", {imageId})
            /\ files' = DeleteFrom("File", files, "Image", {imageId})
            /\ notes' = DeleteFrom("Note", notes, "Image", {imageId})
            /\ deleted' = [status |-> 200, imageId |-> imageId]
       ELSE /\ UNCHANGED db
            /\ deleted' = [status |-> 404, imageId |-> NullRef]
  /\ UNCHANGED <<req, submits, saved, loaded>>

\* ------------------------------------------------------------------ loader
\* The loader's lookup without the owner.
LoaderWhereIdOnly(noteId, userId) == {n \in notes : n.id = noteId}

\* where: { id: params.noteId, ownerId: userId }
LoaderWhere(noteId, userId) == {n \in notes : n.id = noteId /\ n.ownerId = userId}

\* select: { id, title, content, images: { select: { fileId, altText } } }
LoaderSelect(n) ==
  [id |-> n.id, title |-> n.title, content |-> n.content,
   images |-> {[fileId |-> i.fileId, altText |-> i.altText] :
                i \in {x \in images : x.noteId = n.id}}]

Loader(userId, noteId) ==
  /\ LET found == LoaderWhere(noteId, userId)
     IN loaded' =
          [userId |-> userId, noteId |-> noteId,
           response |->
             IF found = {}
               THEN [status |-> 404, body |-> "Not found", note |-> {}]
               ELSE [status |-> 200, body |-> "",
                     note |-> {LoaderSelect(n) : n \in found}]]
  /\ UNCHANGED <<db, req, submits, saved, deleted>>

\* ----------------------------------------------------------- specifications
Steps(r) ==
  \/ FindFirst(r)
  \/ Update(r)
  \/ Create(r)
  \/ CreateFile(r)
  \/ CreateImage(r)
  \/ InsertFails(r)
  \/ Redirect(r)

\* The requests `rs` submit forms with the intents and texts given, and run.
Save(rs, intents, texts) ==
  \E r \in rs :
    \/ \E userId \in UserIds, intent \in intents, id \in PayloadIds,
          text \in texts, k \in 0..MaxImages :
         Submit(r, userId, intent, id, text[1], text[2], k)
    \/ Steps(r)

\* Forms that pass the schema, from concurrent requests.
SaveNote == Save(Requests, {"submit"}, ValidTexts)

\* Forms that pass the schema, one request at a time.
SaveOneNote == Save({1}, {"submit"}, ValidTexts)

\* Every form, valid or not, with every intent, one request at a time.
SaveAnyNote == Save({1}, Intents, AllTexts)

DeleteAnImage == \E imageId \in 1..(MaxFiles + 1) : DeleteImage(imageId)

LoadNote ==
  \E userId \in UserIds, noteId \in 1..(MaxNotes + 1) : Loader(userId, noteId)

Next == SaveNote \/ DeleteAnImage

Spec == Init /\ [][Next]_vars

NextLoad == SaveOneNote \/ DeleteAnImage \/ LoadNote

SpecLoad == Init /\ [][NextLoad]_vars

NextAny == SaveAnyNote

SpecAny == Init /\ [][NextAny]_vars

\* =================================================================== claims
\* What a claim says of ownership and of the schema's limits, in its own words.
Owns(userId, id) == \E n \in notes : n.id = id /\ n.ownerId = userId
Offending(title, content) ==
  (IF StrLen(title) = 0 \/ StrLen(title) > 100 THEN {"title"} ELSE {})
    \cup (IF StrLen(content) = 0 \/ StrLen(content) > 10000 THEN {"content"} ELSE {})
Wrote(q) == q.pc \in {"images", "image"}

C2_LoaderOwnedOrNotFound ==
  [][\A userId \in UserIds, noteId \in 1..(MaxNotes + 1) :
       Loader(userId, noteId) =>
         IF Owns(userId, noteId)
           THEN /\ loaded'.response.status = 200
                /\ loaded'.response.note =
                     {[id |-> n.id, title |-> n.title, content |-> n.content,
                       images |-> {[fileId |-> i.fileId, altText |-> i.altText] :
                                    i \in {x \in images : x.noteId = noteId}}] :
                      n \in {m \in notes : m.id = noteId}}
           ELSE loaded'.response = [status |-> 404, body |-> "Not found", note |-> {}]
     ]_vars

\* C2: the loader has answered 404 for a note that exists and is another user's.
C2_Witness ==
  /\ loaded.response.status = 404
  /\ \E n \in notes : n.id = loaded.noteId /\ n.ownerId # loaded.userId

\* C3: a save that ends in the redirect has created one File row and one Image
\* row per image of its form: K rows each, the i-th Image holding the i-th new
\* File's id (all distinct) and the saved note's id.  Every File or Image row
\* that appears in the tables is one a request has recorded as created.
C3_KFilesKImages ==
  [][/\ \A r \in Requests :
          (req[r].pc = "images" /\ req'[r].pc = "idle"
             /\ saved'.response.status = 302)
            => LET q == req[r]
                   K == Len(q.images)
               IN /\ Len(q.createdFiles) = K
                  /\ Len(q.createdImages) = K
                  /\ q.note.id # NullRef
                  /\ saved'.response.location.noteId = q.note.id
                  /\ \A j \in 1..K :
                       /\ q.createdImages[j].fileId = q.createdFiles[j]
                       /\ q.createdImages[j].noteId = q.note.id
                       /\ \A h \in 1..K : h # j => q.createdFiles[h] # q.createdFiles[j]
     /\ \A f \in files' \ files :
          /\ \A g \in files : g.id # f.id
          /\ files' = files \cup {f}
          /\ \E r \in Requests : req'[r].createdFiles = Append(req[r].createdFiles, f.id)
     /\ \A i \in images' \ images :
          /\ images' = images \cup {i}
          /\ \E r \in Requests : req'[r].createdImages = Append(req[r].createdImages, i)
     /\ \A r \in Requests :
          (req[r].pc # "idle" /\ req'[r].pc # "idle")
            => /\ \/ req'[r].createdFiles = req[r].createdFiles
                  \/ \E f \in files' \ files :
                       req'[r].createdFiles = Append(req[r].createdFiles, f.id)
               /\ \/ req'[r].createdImages = req[r].createdImages
                  \/ \E i \in images' \ images :
                       req'[r].createdImages = Append(req[r].createdImages, i)
     ]_vars

\* C3: a request with two images has made both inserts of both and is about to
\* redirect; its rows are in the tables.
C3_Witness ==
  \E r \in Requests :
    /\ req[r].pc = "images"
    /\ Len(req[r].images) >= 2
    /\ req[r].i > Len(req[r].images)
    /\ \A j \in 1..Len(req[r].images) :
         /\ req[r].createdImages[j] \in images
         /\ \E f \in files : f.id = req[r].createdFiles[j]

\* C4: a valid form without id goes to the create, which adds exactly one Note
\* row, of a new id, owned by the caller, with the form's title and content; a
\* valid form with an id of the caller's goes to the update, which sets that
\* row's title and content and leaves the other rows and the row count alone;
\* the redirect returns the saved note's id.
C4_Upsert ==
  [][\A r \in Requests :
       /\ (req[r].pc = "idle" /\ req'[r].pc # "idle")
            => (req'[r].pc = "create" <=> req'[r].id = NoId)
       /\ (req[r].pc = "create" /\ req'[r].pc # "create")
            => \E row \in notes' :
                 /\ notes' = notes \cup {row}
                 /\ Cardinality(notes') = Cardinality(notes) + 1
                 /\ \A n \in notes : n.id # row.id
                 /\ row.ownerId = req[r].userId
                 /\ row.title = req[r].title
                 /\ row.content = req[r].content
                 /\ req'[r].note.id = row.id
       /\ (req[r].pc = "findFirst" /\ req'[r] # req[r]
             /\ Owns(req[r].userId, req[r].id))
            => req'[r].pc = "update"
       /\ (req[r].pc = "update" /\ req'[r].pc # "update")
            => /\ Cardinality(notes') = Cardinality(notes)
               /\ {n.id : n \in notes'} = {n.id : n \in notes}
               /\ \E n \in notes' : n.id = req[r].id
               /\ \A n \in notes' :
                    IF n.id = req[r].id
                      THEN /\ n.title = req[r].title
                           /\ n.content = req[r].content
                           /\ n.ownerId = req[r].userId
                      ELSE n \in notes
               /\ req'[r].note.id = req[r].id
       /\ (req[r].pc = "images" /\ req'[r].pc = "idle"
             /\ saved'.response.status = 302)
            => /\ saved'.response.location.noteId = req[r].note.id
               /\ saved'.response.toast =
                    IF req[r].id = NoId THEN "Note created" ELSE "Note updated"
     ]_vars

\* C4: a form without id has been answered with the id of the note it created,
\* and a form with an id has updated its note.
C4_Witness ==
  /\ saved.response.status = 302
  /\ saved.response.toast = "Note created"
  /\ \E n \in notes : n.id = saved.response.location.noteId /\ n.ownerId = saved.userId
  /\ \E r \in Requests :
       /\ req[r].pc = "images"
       /\ req[r].id # NoId
       /\ \E n \in notes : /\ n.id = req[r].id
                           /\ n.title = req[r].title
                           /\ n.content = req[r].content

\* C5: a submitted form whose title or content is empty or too long is answered
\* 400 with exactly the offending fields in error, both when both offend, and
\* the step writes no row and starts no request; a form that starts a request
\* has no offending field.
C5_Validation ==
  [][submits' # submits =>
       /\ UNCHANGED db
       /\ IF req' = req
            THEN LET s == saved'.response.submission
                 IN /\ saved'.response.status \in {200, 400}
                    /\ saved'.response.status = 200 => s.intent # "submit"
                    /\ saved'.response.status = 400 =>
                         /\ s.intent = "submit"
                         /\ s.error # {}
                    /\ s.error = Offending(s.title, s.content)
            ELSE \A r \in Requests :
                   req'[r] # req[r] =>
                     Offending(req'[r].title, req'[r].content) = {}
     ]_vars

\* C5: a form with a title of 101 characters and a content of 10,001 has been
\* answered 400 with both fields in error, and no File or Image row exists.
C5_Witness ==
  /\ saved.response.status = 400
  /\ saved.response.submission.error = {"title", "content"}
  /\ StrLen(saved.response.submission.title) = 101
  /\ StrLen(saved.response.submission.content) = 10001
  /\ files = {}
  /\ images = {}
  /\ notes \in SeedNotes

\* C6: no step changes the ownerId of a Note row, or removes or doubles the row.
C6_OwnerImmutable ==
  [][\A n \in notes :
       \E m \in notes' :
         /\ m.id = n.id
         /\ m.ownerId = n.ownerId
         /\ \A o \in notes' : o.id = n.id => o = m
     ]_vars

\* C6: a request of the owner has updated a note for which another user's form
\* was answered 404.
C6_Witness ==
  \E r \in Requests :
    /\ Wrote(req[r])
    /\ req[r].id # NoId
    /\ saved.response.status = 404
    /\ saved.response.submission.id = req[r].id
    /\ saved.userId # req[r].userId

\* C7: a Note row changes only in the update step of a request, which sets its
\* title and content both to that request's (so the row always holds the text
\* of the update that ran last, never a mix); the update step of a request that
\* passed the lookup always goes through, and such a request ends in the
\* redirect unless one of its own inserts fails.
C7_LastWriteWins ==
  [][/\ \A n \in notes :
          \A m \in {x \in notes' : x.id = n.id} :
            \/ m = n
            \/ \E r \in Requests :
                 /\ req[r].pc = "update"
                 /\ req'[r].pc = "images"
                 /\ req[r].id = n.id
                 /\ m.title = req[r].title
                 /\ m.content = req[r].content
     /\ \A r \in Requests :
          /\ (req[r].pc = "update" /\ req'[r] # req[r]) => req'[r].pc = "images"
          /\ (Wrote(req[r]) /\ req'[r].pc = "idle")
               => \/ saved'.response.status = 302
                  \/ /\ saved'.response.status = 500
                     /\ req[r].pc = "image" \/ req[r].i <= Len(req[r].images)
     ]_vars

\* C7: two requests of one user with different texts have both run their
\* update of the same note, and the row holds the text of one of them.
C7_Witness ==
  \E r1, r2 \in Requests :
    /\ r1 # r2
    /\ Wrote(req[r1]) /\ Wrote(req[r2])
    /\ req[r1].id # NoId
    /\ req[r1].id = req[r2].id
    /\ req[r1].userId = req[r2].userId
    /\ req[r1].title # req[r2].title
    /\ req[r1].content # req[r2].content
    /\ \E n \in notes :
         /\ n.id = req[r1].id
         /\ n.title = req[r1].title
         /\ n.content = req[r1].content

\* C8: the step in which an insert of a request fails changes no table: the
\* note the request saved and the File rows it created are still there.
C8_NoRollback ==
  [][\A r \in Requests :
       (Wrote(req[r]) /\ req'[r].pc = "idle" /\ saved'.response.status = 500)
         => /\ UNCHANGED db
            /\ \E n \in notes' : n.id = req[r].note.id
            /\ \A j \in 1..Len(req[r].createdFiles) :
                 \E f \in files' : f.id = req[r].createdFiles[j]
            /\ Len(req[r].createdImages) < Len(req[r].images)
     ]_vars

\* C8: the only form so far, of u2, ended in a failure: its note is saved, with
\* at least one image stored and one upload more in File than in Image.
C8_Witness ==
  /\ submits = 1
  /\ deleted = NoDelete
  /\ saved.response.status = 500
  /\ saved.userId = "u2"
  /\ \E n \in notes :
       /\ n.ownerId = saved.userId
       /\ images # {}
       /\ \A i \in images : i.noteId = n.id
  /\ Cardinality(files) = Cardinality(images) + 1

\* C9 as stated: once an image was deleted, the File row it referenced is gone.
C9_FileCascades ==
  deleted.status = 200 => ~\E f \in files : f.id = deleted.imageId

\* C9 as amended: deleting an image removes that one Image row and nothing else;
\* the File row it referenced stays (the foreign key cascades from File to
\* Image, not from Image to File).  An unknown imageId changes nothing.
C9_ImageRowOnly ==
  [][\A imageId \in 1..(MaxFiles + 1) :
       DeleteImage(imageId) =>
         IF \E i \in images : i.fileId = imageId
           THEN /\ images' = {i \in images : i.fileId # imageId}
                /\ Cardinality(images') = Cardinality(images) - 1
                /\ files' = files
                /\ notes' = notes
                /\ \E f \in files' : f.id = imageId
                /\ deleted'.status = 200
           ELSE UNCHANGED db /\ deleted'.status = 404
     ]_vars

\* C9: an image has been deleted and its File row is still in the table.
C9_Witness ==
  /\ deleted.status = 200
  /\ \E f \in files : f.id = deleted.imageId
  /\ ~\E i \in images : i.fileId = deleted.imageId

\* C10: every Image row's fileId is the id of a File row, no two Image rows
\* share a fileId, and a request never has more Image rows than File rows:
\* when it is about to insert an Image, the File is there and has no Image.
C10_ImageHasFile ==
  /\ \A i \in images : \E f \in files : f.id = i.fileId
  /\ \A i, j \in images : i.fileId = j.fileId => i = j
  /\ \A r \in Requests :
       /\ Len(req[r].createdImages) <= Len(req[r].createdFiles)
       /\ req[r].pc = "image" =>
            /\ Len(req[r].createdFiles) = Len(req[r].createdImages) + 1
            /\ \E f \in files : f.id = req[r].file
            /\ ~\E i \in images : i.fileId = req[r].file

\* C10: after a failed save a File row has no Image, while Image rows exist.
C10_Witness ==
  /\ saved.response.status = 500
  /\ deleted = NoDelete
  /\ images # {}
  /\ \E f \in files : ~\E i \in images : i.fileId = f.id

====
